---------------------------- MODULE Spec2Model ----------------------------
(***************************************************************************)
(* rsiup: run-time binding to the IUP native GUI library.                  *)
(*                                                                         *)
(* The model follows src/src/iup.rs (unix build, cfg(unix)):               *)
(*   - set_library_path: the self-relaunch bootstrap step;                 *)
(*   - the lazy_static singletons IUP_LIB, IM_LIB, IUP and IM;             *)
(*   - Iup::new: IupOpen, IupSetGlobal, the symbol table;                  *)
(*   - with_env and Im::new: the auxiliary image library;                  *)
(*   - the methods of Iup and Im, with the text conversions of prelude.rs. *)
(* A chain of processes is modelled: process p may spawn process p + 1 by  *)
(* re-executing itself.  Each process has a main thread (thread 1) and     *)
(* worker threads that access the IUP singleton.                           *)
(*                                                                         *)
(* A program calls set_library_path, if it calls it at all, on its main    *)
(* thread as its first step, before it starts a thread or touches a        *)
(* singleton: the process is then in its "start" phase, and in its "run"   *)
(* phase afterwards.  Signals are those the process raises itself.         *)
(*                                                                         *)
(* Specifications:                                                         *)
(*   Spec        bootstrap, construction of IUP by any thread, termination *)
(*   SpecIm      bootstrap, construction of IUP and IM by any thread       *)
(*   SpecFacade  one thread: bootstrap, IUP, the methods of Iup            *)
(*   SpecImage   one thread: bootstrap, IUP, IM, load_image                *)
(*   SpecText    one thread: c_from_str, then c_to_string                  *)
(***************************************************************************)
EXTENDS Integers, Sequences, FiniteSets, TLC

(***************************************************************************)
(* Bounds of the model.                                                    *)
(***************************************************************************)
MaxProcs == 3          \* length of the longest process chain explored
NThreads == 2          \* threads per process (thread 1 is the main thread)
MaxCalls == 2          \* method calls made on the handles of one process
MaxChars == 3          \* characters of a text handed to the conversions

Procs   == 1..MaxProcs
Threads == 1..NThreads
MainThread == CHOOSE t \in Threads : \A u \in Threads : t <= u

(***************************************************************************)
(* Sentinel constants (prelude.rs).                                        *)
(***************************************************************************)
NOERROR == 0
ERROR == 1
OPENED == -1

(***************************************************************************)
(* The process environment.  A variable is a string, NoVal when it is not  *)
(* set, or NonUnicode when it is set to bytes that are not valid UTF-8.    *)
(***************************************************************************)
NoVal == "<unset>"
NonUnicode == "<non-unicode bytes>"
GUARD == "__RECURSION_HACK__"
LDPATH == "LD_LIBRARY_PATH"
EnvKeys == {GUARD, LDPATH}

GuardValues == {NoVal, "1", "0", NonUnicode}
LdValues == {NoVal, "", "/usr/lib"}
ArgVectors == {<<"rsiup">>, <<"./rsiup", "-v", "x">>}

\* env::current_exe(): the absolute path of the running executable.
current_exe == "/app/rsiup"

\* exe.parent() of current_exe.
exe_parent == "/app"

\* exe_path(): the directory of the native libraries (unix branch).
exe_path == exe_parent \o "/" \o "iup/linux"

\* iup_dll(): the core library file (unix branch).
iup_dll == exe_path \o "/" \o "libiup.so"

\* env::var(key): Ok(s) only when the variable is set and is valid unicode.
env_var(e, key) ==
    IF e[key] = NoVal THEN [ok |-> FALSE, s |-> ""]
    ELSE IF e[key] = NonUnicode THEN [ok |-> FALSE, s |-> ""]
    ELSE [ok |-> TRUE, s |-> e[key]]

\* env::var_os(key): Some(bytes) whenever the variable is set.
env_var_os(e, key) ==
    IF e[key] = NoVal THEN [some |-> FALSE, v |-> ""]
    ELSE [some |-> TRUE, v |-> e[key]]

(***************************************************************************)
(* set_library_path, line 70: the relaunch is skipped exactly when         *)
(* env::var("__RECURSION_HACK__") is Ok("1").                              *)
(***************************************************************************)
GuardSetWrong(e) == env_var(e, GUARD).ok /\ env_var(e, GUARD).s = "0"

GuardSetAlways(e) == TRUE

GuardSet(e) == LET r == env_var(e, GUARD) IN IF r.ok THEN r.s = "1" ELSE FALSE

(***************************************************************************)
(* set_library_path, lines 73-82: the search path handed to the child.     *)
(***************************************************************************)
LibraryPathAppended(e) ==
    LET prev == env_var_os(e, LDPATH)
    IN  IF prev.some THEN prev.v \o ":" \o exe_path ELSE exe_path

LibraryPath(e) ==
    LET prev == env_var_os(e, LDPATH)
    IN  IF prev.some THEN exe_path \o ":" \o prev.v ELSE exe_path

(***************************************************************************)
(* set_library_path, lines 84-87: the child's environment is the parent's  *)
(* with the guard and the search path overridden.                          *)
(***************************************************************************)
ChildEnvNoGuard(e) == [e EXCEPT ![LDPATH] = LibraryPath(e)]

ChildEnv(e) == [e EXCEPT ![GUARD] = "1", ![LDPATH] = LibraryPath(e)]

(***************************************************************************)
(* set_library_path, lines 84-86: Command::new(exe) makes exe the child's  *)
(* program name, and .args(env::args_os()) appends every element of the    *)
(* parent's argument vector, its program name included.                    *)
(***************************************************************************)
args_os(av) == av

ChildArgv(av) == <<current_exe>> \o args_os(av)

(***************************************************************************)
(* Termination status of a process, as ExitStatus reports it.              *)
(***************************************************************************)
NoStatus == [kind |-> "none", n |-> 0]
Exited(c) == [kind |-> "code", n |-> c % 256]
Signaled(s) == [kind |-> "signal", n |-> s]
Panicked == Exited(101)

AppExitCodes == {0, 3, 255}
Signals == {6, 11}

\* status.code(): Some(code) for a normal exit, None for a signal.
StatusCode(st) == IF st.kind = "code" THEN [some |-> TRUE, v |-> st.n]
                  ELSE [some |-> FALSE, v |-> 0]

(***************************************************************************)
(* set_library_path, lines 71 and 91-98: what the parent does with the     *)
(* child's status: process::exit(exit_code), or a panic on a signal.       *)
(***************************************************************************)
RelaunchOutcomeZero(st) ==
    IF StatusCode(st).some
    THEN [state |-> "exited", status |-> Exited(0), report |-> <<>>]
    ELSE [state |-> "panicked", status |-> Panicked, report |-> <<st.n>>]

RelaunchOutcomeReturns(st) ==
    IF StatusCode(st).some
    THEN [state |-> "run", status |-> NoStatus, report |-> <<>>]
    ELSE [state |-> "panicked", status |-> Panicked, report |-> <<st.n>>]

RelaunchOutcomeSignalCode(st) ==
    IF StatusCode(st).some
    THEN [state |-> "exited", status |-> Exited(StatusCode(st).v),
          report |-> <<>>]
    ELSE [state |-> "exited", status |-> Exited(128 + st.n), report |-> <<>>]

\* report is the signal number the panic message carries (lines 95-96).
RelaunchOutcome(st) ==
    IF StatusCode(st).some
    THEN [state |-> "exited", status |-> Exited(StatusCode(st).v),
          report |-> <<>>]
    ELSE [state |-> "panicked", status |-> Panicked, report |-> <<st.n>>]


(***************************************************************************)
(* The core library's exports.  The names Iup::new resolves, in the order  *)
(* it resolves them (lines 151-196), as <<struct field, export name>>.     *)
(***************************************************************************)
SymbolTable == <<
    <<"_append", "IupAppend">>,
    <<"_button", "IupButton">>,
    <<"_close", "IupClose">>,
    <<"_dialog", "IupDialog">>,
    <<"_getattribute", "IupGetAttribute">>,
    <<"_getattributeih", "IupGetAttribute">>,
    <<"_getdialogchild", "IupGetDialog">>,
    <<"_getglobal", "IupGetGlobal">>,
    <<"_getint", "IupGetInt">>,
    <<"_hbox", "IupHbox">>,
    <<"_label", "IupLabel">>,
    <<"_mainloop", "IupMainLoop">>,
    <<"_message", "IupMessage">>,
    <<"_setattribute", "IupSetAttribute">>,
    <<"_setattributehandle", "IupSetAttributeHandle">>,
    <<"_setattributeih", "IupSetAttribute">>,
    <<"_setcallback", "IupSetCallback">>,
    <<"_setfocus", "IupSetFocus">>,
    <<"_sethandle", "IupSetHandle">>,
    <<"_setint", "IupSetInt">>,
    <<"_show", "IupShow">>,
    <<"_showxy", "IupShowXY">>,
    <<"_timer", "IupTimer">>,
    <<"_vbox", "IupVbox">>,
    <<"_version", "IupVersion">>,
    <<"_versionshow", "IupVersionShow">> >>

\* The fields of struct Iup (lines 119-147).
IupFields == {SymbolTable[i][1] : i \in 1..Len(SymbolTable)} \cup {"_setglobal"}

\* Every export name Iup::new asks the core library for.
RequiredExports ==
    {"IupOpen", "IupSetGlobal"} \cup {SymbolTable[i][2] : i \in 1..Len(SymbolTable)}

\* What a core library file may export: the names of the native header the
\* facade is written against (the declaration table kept in iup.rs).
HeaderExports == RequiredExports \cup {"IupGetDialogChild", "IupGetAttributeHandle"}

(***************************************************************************)
(* Signatures.  A signature is the sequence of parameter types and the     *)
(* return type: "H" a handle pointer, "C" a character pointer, "I" a C     *)
(* int, "K" a callback, "pI" and "pppC" the pointers IupOpen takes, "..."  *)
(* a variadic tail, "V" no value.                                          *)
(***************************************************************************)
Sig(params, result) == [params |-> params, result |-> result]

\* The function pointer types (lines 328-349).
SigTypes == [
    SigCCrH |-> Sig(<<"C", "C">>, "H"),
    SigCCrV |-> Sig(<<"C", "C">>, "V"),
    SigCHrH |-> Sig(<<"C", "H">>, "H"),
    SigCrC |-> Sig(<<"C">>, "C"),
    SigCrH |-> Sig(<<"C">>, "H"),
    SigHCCrV |-> Sig(<<"H", "C", "C">>, "V"),
    SigHCHrV |-> Sig(<<"H", "C", "H">>, "V"),
    SigHCIrV |-> Sig(<<"H", "C", "I">>, "V"),
    SigHCKrK |-> Sig(<<"H", "C", "K">>, "K"),
    SigHCrC |-> Sig(<<"H", "C">>, "C"),
    SigHCrH |-> Sig(<<"H", "C">>, "H"),
    SigHCrI |-> Sig(<<"H", "C">>, "I"),
    SigHHrH |-> Sig(<<"H", "H">>, "H"),
    SigHIIrI |-> Sig(<<"H", "I", "I">>, "I"),
    SigHrH |-> Sig(<<"H">>, "H"),
    SigHrI |-> Sig(<<"H">>, "I"),
    SigHsrH |-> Sig(<<"H", "...">>, "H"),
    SigVrC |-> Sig(<<>>, "C"),
    SigVrH |-> Sig(<<>>, "H"),
    SigVrI |-> Sig(<<>>, "I"),
    SigVrV |-> Sig(<<>>, "V"),
    SigpIpppCrI |-> Sig(<<"pI", "pppC">>, "I") ]

\* The type each field of struct Iup is declared with (lines 119-147).
FieldType == [
    _append |-> "SigHHrH", _button |-> "SigCCrH", _close |-> "SigVrV",
    _dialog |-> "SigHrH", _getattribute |-> "SigHCrC",
    _getattributeih |-> "SigHCrH", _getdialogchild |-> "SigHCrH",
    _getglobal |-> "SigCrC", _getint |-> "SigHCrI", _hbox |-> "SigHsrH",
    _label |-> "SigCrH", _mainloop |-> "SigVrI", _message |-> "SigCCrV",
    _setattribute |-> "SigHCCrV", _setattributehandle |-> "SigHCHrV",
    _setattributeih |-> "SigHCHrV", _setcallback |-> "SigHCKrK",
    _setfocus |-> "SigHrH", _setglobal |-> "SigCCrV",
    _sethandle |-> "SigCHrH", _setint |-> "SigHCIrV", _show |-> "SigHrI",
    _showxy |-> "SigHIIrI", _timer |-> "SigVrH", _vbox |-> "SigHsrH",
    _version |-> "SigVrC", _versionshow |-> "SigVrV" ]

DeclaredSig(field) == SigTypes[FieldType[field]]

\* The declarations of the native header kept in iup.rs (lines 371-732).
HeaderSig == [
    IupOpen |-> Sig(<<"pI", "pppC">>, "I"),
    IupClose |-> Sig(<<>>, "V"),
    IupMainLoop |-> Sig(<<>>, "I"),
    IupVersion |-> Sig(<<>>, "C"),
    IupVersionShow |-> Sig(<<>>, "V"),
    IupAppend |-> Sig(<<"H", "H">>, "H"),
    IupGetDialog |-> Sig(<<"H">>, "H"),
    IupGetDialogChild |-> Sig(<<"H", "C">>, "H"),
    IupShow |-> Sig(<<"H">>, "I"),
    IupShowXY |-> Sig(<<"H", "I", "I">>, "I"),
    IupSetAttribute |-> Sig(<<"H", "C", "C">>, "V"),
    IupSetInt |-> Sig(<<"H", "C", "I">>, "V"),
    IupGetAttribute |-> Sig(<<"H", "C">>, "C"),
    IupGetInt |-> Sig(<<"H", "C">>, "I"),
    IupSetGlobal |-> Sig(<<"C", "C">>, "V"),
    IupGetGlobal |-> Sig(<<"C">>, "C"),
    IupSetFocus |-> Sig(<<"H">>, "H"),
    IupSetCallback |-> Sig(<<"H", "C", "K">>, "K"),
    IupSetHandle |-> Sig(<<"C", "H">>, "H"),
    IupSetAttributeHandle |-> Sig(<<"H", "C", "H">>, "V"),
    IupGetAttributeHandle |-> Sig(<<"H", "C">>, "H"),
    IupVbox |-> Sig(<<"H", "...">>, "H"),
    IupHbox |-> Sig(<<"H", "...">>, "H"),
    IupButton |-> Sig(<<"C", "C">>, "H"),
    IupDialog |-> Sig(<<"H">>, "H"),
    IupLabel |-> Sig(<<"C">>, "H"),
    IupTimer |-> Sig(<<>>, "H"),
    IupMessage |-> Sig(<<"C", "C">>, "V") ]

\* The libraries explored: complete, or lacking exactly one export.
MissingSets == {{}} \cup {{n} : n \in HeaderExports}

(***************************************************************************)
(* Symbol resolution, IUP_LIB.get(name): Ok when the library exports name. *)
(***************************************************************************)
LibGet(m, name) == name \notin m

(***************************************************************************)
(* Iup::new, lines 151-196: every IUP_LIB.get(..) is followed by .unwrap(),*)
(* which panics when the resolution failed.                                *)
(***************************************************************************)
UnwrapNeverPanics(ok) == FALSE

UnwrapPanics(ok) == ~ok

(***************************************************************************)
(* Iup::new, line 154: the test of IupOpen's result.                       *)
(***************************************************************************)
OpenFailedOnlyOnError(r) == r = ERROR

OpenFailed(r) == r # NOERROR

OpenResults == {NOERROR, ERROR, OPENED}

(***************************************************************************)
(* lazy_static (lines 14-24): a cell is initialised under std::sync::Once. *)
(* Its states: "new", "running" (one thread runs the initialiser),         *)
(* "done", "poisoned" (the initialiser panicked).                          *)
(***************************************************************************)
Cells == {"IUP_LIB", "IUP", "IM_LIB", "IM"}

\* A thread that dereferences the cell runs the initialiser only when no
\* initialiser has been started.
OnceMayRunRetrying(s) == s \in {"new", "poisoned"}

OnceMayRunAlways(s) == s \in {"new", "done"}

OnceMayRun(s) == s = "new"

\* A thread that dereferences the cell gets the value only when the
\* initialiser has completed.
OnceReady(s) == s = "done"

(***************************************************************************)
(* The auxiliary image library (lines 17-20, 30-32, 103-117).              *)
(***************************************************************************)

\* im_dll(): the image library file (unix branch).
im_dll == exe_path \o "/" \o "libiupim.so"

\* What an image library file may export: complete, or lacking the one
\* export Im::new resolves.
ImMissingSets == {{}, {"IupLoadImage"}}

(***************************************************************************)
(* with_env (lines 47-57): env::set_var(key, value) before func runs, and  *)
(* the deferred guard that puts prev back only when prev is Some.          *)
(***************************************************************************)
WithEnvSetNothing(e, key, value) == e

WithEnvSet(e, key, value) == [e EXCEPT ![key] = value]

WithEnvRestoreOrRemove(e, key, prev) ==
    [e EXCEPT ![key] = IF prev.some THEN prev.v ELSE NoVal]

WithEnvRestore(e, key, prev) ==
    IF prev.some THEN [e EXCEPT ![key] = prev.v] ELSE e

(***************************************************************************)
(* Text conversion (prelude.rs, lines 7-15).  A text is a sequence of      *)
(* bytes; a native string is a pointer, null or to bytes that end in 0.    *)
(***************************************************************************)
Texts == {<<>>, <<97>>, <<97, 0, 98>>}

HasNul(s) == \E i \in DOMAIN s : s[i] = 0

\* CString::new(s): an error when s has an interior 0 byte.
CStringNew(s) ==
    IF HasNul(s) THEN [ok |-> FALSE, bytes |-> <<>>]
    ELSE [ok |-> TRUE, bytes |-> s \o <<0>>]

NullPtr == [null |-> TRUE, mem |-> <<>>]
Ptr(bytes) == [null |-> FALSE, mem |-> bytes]

\* c_from_str (lines 13-15): CString::new(s).unwrap().into_raw().
c_from_str(s) ==
    LET r == CStringNew(s)
    IN  IF r.ok THEN [panic |-> FALSE, ptr |-> Ptr(r.bytes)]
        ELSE [panic |-> TRUE, ptr |-> NullPtr]

\* The values of a &str: texts of at most MaxChars characters, each in its
\* UTF-8 encoding: NUL, "a", e-acute (two bytes), the euro sign (three).
Chars == {<<0>>, <<97>>, <<195, 169>>, <<226, 130, 172>>}

RECURSIVE Encode(_)
Encode(cs) == IF cs = <<>> THEN <<>> ELSE cs[1] \o Encode(Tail(cs))

StrTexts == {Encode(cs) : cs \in UNION {[1..n -> Chars] : n \in 0..MaxChars}}

\* The native calls Iup::new makes (lines 154 and 159), with their
\* arguments: IupOpen(null, null) and IupSetGlobal(UTF8MODE, YES).
UTF8MODE == "UTF8MODE"
YES == "YES"
OpenArgs == <<NullPtr, NullPtr>>
SetGlobalArgsNo == <<UTF8MODE, "NO">>
SetGlobalArgs == <<UTF8MODE, YES>>
OpenCall == <<"call", "IupOpen", OpenArgs>>
SetGlobalCall == <<"call", "IupSetGlobal", SetGlobalArgs>>

\* CStr::from_ptr(p) for a pointer that is not null: the bytes before the
\* first 0 byte.
RECURSIVE UntilNul(_)
UntilNul(mem) ==
    IF mem = <<>> \/ mem[1] = 0 THEN <<>>
    ELSE <<mem[1]>> \o UntilNul(Tail(mem))

\* CStr::to_str (line 9): the bytes must be well-formed UTF-8.
IsCont(b) == b \in 128..191

IsAscii(s) == \A i \in DOMAIN s : s[i] < 128

RECURSIVE IsUtf8(_)
IsUtf8(s) ==
    IF s = <<>> THEN TRUE
    ELSE LET b == s[1]
             n == Len(s)
         IN  IF b < 128 THEN IsUtf8(Tail(s))
             ELSE IF b \in 194..223
             THEN n >= 2 /\ IsCont(s[2]) /\ IsUtf8(SubSeq(s, 3, n))
             ELSE IF b \in 224..239
             THEN /\ n >= 3
                  /\ IsCont(s[2]) /\ IsCont(s[3])
                  /\ (b = 224 => s[2] >= 160)
                  /\ (b = 237 => s[2] <= 159)
                  /\ IsUtf8(SubSeq(s, 4, n))
             ELSE IF b \in 240..244
             THEN /\ n >= 4
                  /\ IsCont(s[2]) /\ IsCont(s[3]) /\ IsCont(s[4])
                  /\ (b = 240 => s[2] >= 144)
                  /\ (b = 244 => s[2] <= 143)
                  /\ IsUtf8(SubSeq(s, 5, n))
             ELSE FALSE

\* CStr::from_ptr(null) (line 8) reads through a null pointer, which is
\* undefined behaviour: the process may die of a segmentation fault, or
\* the call may yield an error or some text.
NullDeref == {[kind |-> "crash", text |-> <<>>],
              [kind |-> "Err", text |-> <<>>],
              [kind |-> "Ok", text |-> <<>>]}

c_to_string_ascii(p) ==
    IF p.null THEN NullDeref
    ELSE LET bytes == UntilNul(p.mem)
         IN  IF IsAscii(bytes) THEN {[kind |-> "Ok", text |-> bytes]}
             ELSE {[kind |-> "Err", text |-> <<>>]}

\* c_to_string (lines 7-11): the outcomes the call can have.
c_to_string(p) ==
    IF p.null THEN NullDeref
    ELSE LET bytes == UntilNul(p.mem)
         IN  IF IsUtf8(bytes) THEN {[kind |-> "Ok", text |-> bytes]}
             ELSE {[kind |-> "Err", text |-> <<>>]}

\* What a native function that returns a string may return: no value, "a",
\* "e-acute" in two bytes, a byte no UTF-8 text holds, the empty string.
NativeStrings == {NullPtr, Ptr(<<97, 0>>), Ptr(<<195, 169, 0>>),
                  Ptr(<<255, 0>>), Ptr(<<0>>)}

\* What a native function that returns a status may return.
NativeInts == {NOERROR, ERROR, OPENED, 2}

\* show and show_xy (lines 300-306): the comparison with NOERROR.
SentinelNotError(r) == r # ERROR

SentinelToBool(r) == r = NOERROR

(***************************************************************************)
(* The methods of impl Iup (lines 200-326), by shape: the field each one   *)
(* calls through and the number of text arguments it converts.             *)
(***************************************************************************)
Method(name, field, texts) == [name |-> name, field |-> field, texts |-> texts]

\* Methods that pass texts and return a handle, an integer or nothing.
TextMethods == {
    Method("button", "_button", 2),
    Method("get_dialog_child", "_getdialogchild", 1),
    Method("get_ih", "_getattributeih", 1),
    Method("get_int", "_getint", 1),
    Method("label", "_label", 1),
    Method("message", "_message", 2),
    Method("set_attribute", "_setattribute", 2),
    Method("set_attribute_handle", "_setattributehandle", 1),
    Method("set_callback", "_setcallback", 1),
    Method("set_global", "_setglobal", 2),
    Method("set_handle", "_sethandle", 1),
    Method("set_ih", "_setattributeih", 1),
    Method("set_int", "_setint", 1) }

\* Methods without text arguments that return a handle or nothing.
PlainMethods == {
    Method("append", "_append", 0),
    Method("dialog", "_dialog", 0),
    Method("hbox", "_hbox", 0),
    Method("main_loop", "_mainloop", 0),
    Method("set_focus", "_setfocus", 0),
    Method("timer", "_timer", 0),
    Method("vbox", "_vbox", 0),
    Method("version_show", "_versionshow", 0) }

\* Methods that translate a native status into a boolean.
ShowMethods == {Method("show", "_show", 0), Method("show_xy", "_showxy", 0)}

\* Methods that convert a native string; onErr is what the Err arm yields:
\* None, Some("") or Some("0.0").
GetTextMethods == {
    [name |-> "get_attribute", field |-> "_getattribute", texts |-> 1,
     onErr |-> <<>>],
    [name |-> "get_global", field |-> "_getglobal", texts |-> 1,
     onErr |-> << <<>> >>],
    [name |-> "version", field |-> "_version", texts |-> 0,
     onErr |-> << <<48, 46, 48>> >>] }

\* The text arguments of one call, and whether converting them panics.
TextArgs(k) == [1..k -> Texts]
ArgsPanic(args) == \E i \in DOMAIN args : c_from_str(args[i]).panic

\* The export a field of the Iup value h is bound to.
ExportOf(h, field) == (CHOOSE b \in h.bound : b[1] = field)[2]

(***************************************************************************)
(* State.                                                                  *)
(***************************************************************************)
VARIABLES
    pstate,     \* process -> "unborn", "start", "waiting", "run",
                \*            "exited", "panicked", "signaled"
    env,        \* process -> environment: key -> value
    argv,       \* process -> argument vector, program name first
    status,     \* process -> termination status
    slp,        \* process -> history of its call of set_library_path
    once,       \* process -> cell -> state of the lazy_static cell
    owner,      \* process -> cell -> thread running the initialiser, or 0
    missing,    \* process -> exports the opened core library lacks
    pc,         \* process -> thread -> position
    building,   \* process -> the Iup value under construction: fields bound
    IUP,        \* process -> the published Iup value: fields bound
    view,       \* process -> thread -> the Iup value the thread observes
    openResult, \* process -> the values IupOpen has returned, in order
    newResult,  \* process -> how Iup::new ended
    log,        \* process -> the core library's native events, in order
    imLog,      \* process -> the image library's native events, in order
    imMissing,  \* process -> exports the opened image library lacks
    withEnvPrev, \* process -> the value with_env saved (prev), while it runs
    ldAtImLoad, \* process -> LD_LIBRARY_PATH when the image library was opened
    imView,     \* process -> thread -> whether the thread observes the Im value
    ncalls,     \* process -> number of method calls made so far
    ret         \* process -> the last method call and what it returned

extVars == <<imLog, imMissing, withEnvPrev, ldAtImLoad, imView, ncalls, ret>>

vars == <<pstate, env, argv, status, slp, once, owner, missing, pc, building,
          IUP, view, openResult, newResult, log, extVars>>

bootVars == <<pstate, env, argv, status, slp>>
runVars == <<once, owner, missing, pc, building, IUP, view, openResult,
             newResult, log, extVars>>

NoResult == <<>>
NoHandle == [bound |-> {}, valid |-> FALSE]
EmptyEnv == [k \in EnvKeys |-> NoVal]
NoCall == [called |-> FALSE, relaunch |-> FALSE, returned |-> FALSE,
           spawned |-> 0, envBefore |-> EmptyEnv, envAfter |-> EmptyEnv,
           report |-> <<>>]
NotRun == [kind |-> "none", name |-> ""]
NoPrev == [some |-> FALSE, v |-> ""]
NotOpened == "<not opened>"
NoRet == [method |-> "", args |-> <<>>, native |-> <<>>, result |-> <<>>,
          outcome |-> ""]

Terminated(p) == pstate[p] \in {"exited", "panicked", "signaled"}

Init ==
    /\ pstate = [p \in Procs |-> IF p = 1 THEN "start" ELSE "unborn"]
    /\ \E g \in GuardValues, l \in LdValues :
          env = [p \in Procs |->
                   IF p = 1 THEN [k \in EnvKeys |-> IF k = GUARD THEN g ELSE l]
                   ELSE EmptyEnv]
    /\ \E av \in ArgVectors :
          argv = [p \in Procs |-> IF p = 1 THEN av ELSE <<>>]
    /\ status = [p \in Procs |-> NoStatus]
    /\ slp = [p \in Procs |-> NoCall]
    /\ once = [p \in Procs |-> [c \in Cells |-> "new"]]
    /\ owner = [p \in Procs |-> [c \in Cells |-> 0]]
    /\ missing = [p \in Procs |-> {}]
    /\ pc = [p \in Procs |-> [t \in Threads |-> "idle"]]
    /\ building = [p \in Procs |-> {}]
    /\ IUP = [p \in Procs |-> NoHandle]
    /\ view = [p \in Procs |-> [t \in Threads |-> NoHandle]]
    /\ openResult = [p \in Procs |-> NoResult]
    /\ newResult = [p \in Procs |-> NotRun]
    /\ log = [p \in Procs |-> <<>>]
    /\ imLog = [p \in Procs |-> <<>>]
    /\ imMissing = [p \in Procs |-> {}]
    /\ withEnvPrev = [p \in Procs |-> NoPrev]
    /\ ldAtImLoad = [p \in Procs |-> NotOpened]
    /\ imView = [p \in Procs |-> [t \in Threads |-> FALSE]]
    /\ ncalls = [p \in Procs |-> 0]
    /\ ret = [p \in Procs |-> NoRet]

(***************************************************************************)
(* set_library_path (lines 59-101), called by the main thread as the       *)
(* first thing the program does.                                           *)
(***************************************************************************)

\* Line 70, guard set: the function returns at once.
SetLibraryPathNoop(p) ==
    /\ pstate[p] = "start"
    /\ GuardSet(env[p])
    /\ pstate' = [pstate EXCEPT ![p] = "run"]
    /\ UNCHANGED <<env, argv, status>>
    /\ slp' = [slp EXCEPT ![p] = [called |-> TRUE, relaunch |-> FALSE,
                                  returned |-> TRUE, spawned |-> 0,
                                  envBefore |-> env[p],
                                  envAfter |-> env'[p],
                                  report |-> <<>>]]
    /\ UNCHANGED runVars

\* Lines 71-90, guard not set: the child is spawned and the parent blocks
\* in Command::status().
SetLibraryPathSpawn(p) ==
    /\ pstate[p] = "start"
    /\ ~GuardSet(env[p])
    /\ p + 1 \in Procs
    /\ pstate[p + 1] = "unborn"
    /\ pstate' = [pstate EXCEPT ![p] = "waiting", ![p + 1] = "start"]
    /\ env' = [env EXCEPT ![p + 1] = ChildEnv(env[p])]
    /\ argv' = [argv EXCEPT ![p + 1] = ChildArgv(argv[p])]
    /\ slp' = [slp EXCEPT ![p] = [called |-> TRUE, relaunch |-> TRUE,
                                  returned |-> FALSE, spawned |-> 1,
                                  envBefore |-> env[p],
                                  envAfter |-> env'[p],
                                  report |-> <<>>]]
    /\ UNCHANGED status
    /\ UNCHANGED runVars

\* Lines 72-89: current_exe(), exe_path() or the spawn fails: unwrap/expect
\* panics on the main thread.
SetLibraryPathFail(p) ==
    /\ pstate[p] = "start"
    /\ ~GuardSet(env[p])
    /\ pstate' = [pstate EXCEPT ![p] = "panicked"]
    /\ status' = [status EXCEPT ![p] = Panicked]
    /\ UNCHANGED <<env, argv>>
    /\ slp' = [slp EXCEPT ![p] = [called |-> TRUE, relaunch |-> TRUE,
                                  returned |-> FALSE, spawned |-> 0,
                                  envBefore |-> env[p],
                                  envAfter |-> env'[p],
                                  report |-> <<>>]]
    /\ UNCHANGED runVars

\* Lines 88-99: status() returns once the child has terminated; the parent
\* exits with the child's code, or panics when a signal ended the child.
SetLibraryPathWait(p) ==
    /\ pstate[p] = "waiting"
    /\ Terminated(p + 1)
    /\ LET out == RelaunchOutcome(status[p + 1])
       IN  /\ pstate' = [pstate EXCEPT ![p] = out.state]
           /\ status' = [status EXCEPT ![p] = out.status]
           /\ slp' = [slp EXCEPT ![p].returned = (out.state = "run"),
                                 ![p].report = out.report]
    /\ UNCHANGED <<env, argv>>
    /\ UNCHANGED runVars

\* A program that does not call set_library_path.
SkipSetLibraryPath(p) ==
    /\ pstate[p] = "start"
    /\ pstate' = [pstate EXCEPT ![p] = "run"]
    /\ UNCHANGED <<env, argv, status, slp>>
    /\ UNCHANGED runVars


(***************************************************************************)
(* Panics.  A panic unwinds the thread; on the main thread it ends the     *)
(* process.                                                                *)
(***************************************************************************)
PstateAfterPanic(p, t) ==
    IF t = MainThread THEN [pstate EXCEPT ![p] = "panicked"] ELSE pstate

StatusAfterPanic(p, t) ==
    IF t = MainThread THEN [status EXCEPT ![p] = Panicked] ELSE status

Event(op, name) == <<op, name>>

(***************************************************************************)
(* First and later accesses to the IUP singleton (line 21): the deref of   *)
(* the lazy_static cell.                                                   *)
(***************************************************************************)
AccessIUP(p, t) ==
    /\ pstate[p] = "run"
    /\ pc[p][t] = "idle"
    /\ IF OnceMayRun(once[p]["IUP"])
       THEN \* this thread runs the initialiser, Iup::new().expect(..)
            /\ once' = [once EXCEPT ![p]["IUP"] = "running"]
            /\ owner' = [owner EXCEPT ![p]["IUP"] = t]
            /\ pc' = [pc EXCEPT ![p][t] = "lib"]
            /\ building' = [building EXCEPT ![p] = {}]
            /\ UNCHANGED <<pstate, status, view>>
       ELSE IF OnceReady(once[p]["IUP"])
       THEN \* the value is there
            /\ view' = [view EXCEPT ![p][t] = IUP[p]]
            /\ UNCHANGED <<pstate, status, once, owner, pc, building>>
       ELSE IF once[p]["IUP"] = "running"
       THEN \* another thread runs the initialiser: wait for it
            /\ pc' = [pc EXCEPT ![p][t] = "blocked"]
            /\ UNCHANGED <<pstate, status, once, owner, view, building>>
       ELSE \* poisoned: call_once panics
            /\ pc' = [pc EXCEPT ![p][t] = "dead"]
            /\ pstate' = PstateAfterPanic(p, t)
            /\ status' = StatusAfterPanic(p, t)
            /\ UNCHANGED <<once, owner, view, building>>
    /\ UNCHANGED extVars
    /\ UNCHANGED <<env, argv, slp, missing, IUP, openResult, newResult, log>>

\* A thread waiting on the cell resumes when the initialiser has ended.
Unblock(p, t) ==
    /\ pstate[p] = "run"
    /\ pc[p][t] = "blocked"
    /\ once[p]["IUP"] # "running"
    /\ IF OnceReady(once[p]["IUP"])
       THEN /\ view' = [view EXCEPT ![p][t] = IUP[p]]
            /\ pc' = [pc EXCEPT ![p][t] = "idle"]
            /\ UNCHANGED <<pstate, status>>
       ELSE /\ pc' = [pc EXCEPT ![p][t] = "dead"]
            /\ pstate' = PstateAfterPanic(p, t)
            /\ status' = StatusAfterPanic(p, t)
            /\ UNCHANGED view
    /\ UNCHANGED extVars
    /\ UNCHANGED <<env, argv, slp, once, owner, missing, building, IUP,
                   openResult, newResult, log>>

(***************************************************************************)
(* Iup::new (lines 150-198), run by the thread that owns the IUP cell.     *)
(***************************************************************************)

\* The initialiser of IUP panics: the cell is poisoned.
InitPanics(p, t, result) ==
    /\ once' = [once EXCEPT ![p]["IUP"] = "poisoned"]
    /\ owner' = [owner EXCEPT ![p]["IUP"] = 0]
    /\ pc' = [pc EXCEPT ![p][t] = "dead"]
    /\ pstate' = PstateAfterPanic(p, t)
    /\ status' = StatusAfterPanic(p, t)
    /\ newResult' = [newResult EXCEPT ![p] = result]

\* Line 152, IUP_LIB: the deref of the library cell (line 15),
\* Library::new(iup_dll()).expect(..) on the first one.
IupNewLoad(p, t) ==
    /\ pstate[p] = "run"
    /\ pc[p][t] = "lib"
    /\ IF OnceMayRun(once[p]["IUP_LIB"])
       THEN \E found \in BOOLEAN, m \in MissingSets :
              IF found
              THEN /\ once' = [once EXCEPT ![p]["IUP_LIB"] = "done"]
                   /\ missing' = [missing EXCEPT ![p] = m]
                   /\ log' = [log EXCEPT ![p] = Append(@, Event("load", iup_dll))]
                   /\ pc' = [pc EXCEPT ![p][t] = "resolve_open"]
                   /\ UNCHANGED <<pstate, status, owner, newResult>>
              ELSE /\ m = {}
                   /\ once' = [once EXCEPT ![p]["IUP_LIB"] = "poisoned",
                                           ![p]["IUP"] = "poisoned"]
                   /\ owner' = [owner EXCEPT ![p]["IUP"] = 0]
                   /\ pc' = [pc EXCEPT ![p][t] = "dead"]
                   /\ pstate' = PstateAfterPanic(p, t)
                   /\ status' = StatusAfterPanic(p, t)
                   /\ newResult' = [newResult EXCEPT ![p] =
                          [kind |-> "panic", name |-> "Failed to find IUP library"]]
                   /\ log' = [log EXCEPT ![p] =
                                 Append(@, Event("load_failed", iup_dll))]
                   /\ UNCHANGED missing
       ELSE \* the library is already open
            /\ OnceReady(once[p]["IUP_LIB"])
            /\ pc' = [pc EXCEPT ![p][t] = "resolve_open"]
            /\ UNCHANGED <<pstate, status, once, owner, missing, newResult, log>>
    /\ UNCHANGED extVars
    /\ UNCHANGED <<env, argv, slp, building, IUP, view, openResult>>

\* Lines 151-153: IUP_LIB.get(b"IupOpen\0").unwrap().
IupNewResolveOpen(p, t) ==
    /\ pstate[p] = "run"
    /\ pc[p][t] = "resolve_open"
    /\ IF UnwrapPanics(LibGet(missing[p], "IupOpen"))
       THEN /\ InitPanics(p, t, [kind |-> "panic", name |-> "IupOpen"])
            /\ log' = [log EXCEPT ![p] = Append(@, Event("resolve_failed", "IupOpen"))]
       ELSE /\ pc' = [pc EXCEPT ![p][t] = "call_open"]
            /\ log' = [log EXCEPT ![p] = Append(@, Event("resolve", "IupOpen"))]
            /\ UNCHANGED <<pstate, status, once, owner, newResult>>
    /\ UNCHANGED extVars
    /\ UNCHANGED <<env, argv, slp, missing, building, IUP, view, openResult>>

\* Lines 154-156: iup_open(null, null); any result but NOERROR makes
\* Iup::new return Err, on which the initialiser's expect (line 21) panics.
IupNewCallOpen(p, t) ==
    /\ pstate[p] = "run"
    /\ pc[p][t] = "call_open"
    /\ \E r \in OpenResults :
         /\ openResult' = [openResult EXCEPT ![p] = Append(@, r)]
         /\ log' = [log EXCEPT ![p] = Append(@, OpenCall)]
         /\ IF OpenFailed(r)
            THEN InitPanics(p, t, [kind |-> "Err",
                                   name |-> "Failed to open IUP library"])
            ELSE /\ pc' = [pc EXCEPT ![p][t] = "setglobal"]
                 /\ UNCHANGED <<pstate, status, once, owner, newResult>>
    /\ UNCHANGED extVars
    /\ UNCHANGED <<env, argv, slp, missing, building, IUP, view>>

\* Lines 157-160: resolve IupSetGlobal, then setglobal("UTF8MODE", "YES").
IupNewSetGlobal(p, t) ==
    /\ pstate[p] = "run"
    /\ pc[p][t] = "setglobal"
    /\ IF UnwrapPanics(LibGet(missing[p], "IupSetGlobal"))
       THEN /\ InitPanics(p, t, [kind |-> "panic", name |-> "IupSetGlobal"])
            /\ log' = [log EXCEPT ![p] =
                          Append(@, Event("resolve_failed", "IupSetGlobal"))]
            /\ UNCHANGED building
       ELSE /\ pc' = [pc EXCEPT ![p][t] = "table"]
            /\ building' = [building EXCEPT ![p] = {<<"_setglobal", "IupSetGlobal">>}]
            /\ log' = [log EXCEPT ![p] = @ \o <<Event("resolve", "IupSetGlobal"),
                                                SetGlobalCall>>]
            /\ UNCHANGED <<pstate, status, once, owner, newResult>>
    /\ UNCHANGED extVars
    /\ UNCHANGED <<env, argv, slp, missing, IUP, view, openResult>>

\* The first entry of the table whose resolution panics, or 0.
FirstPanic(m) ==
    LET bad == {i \in 1..Len(SymbolTable) :
                   UnwrapPanics(LibGet(m, SymbolTable[i][2]))}
    IN  IF bad = {} THEN 0 ELSE CHOOSE i \in bad : \A j \in bad : i <= j

\* Lines 161-197: the struct literal resolves the table's entries in order;
\* the value is returned, and published by the cell, when all are bound.
IupNewTable(p, t) ==
    /\ pstate[p] = "run"
    /\ pc[p][t] = "table"
    /\ LET k == FirstPanic(missing[p])
           n == IF k = 0 THEN Len(SymbolTable) ELSE k - 1
           resolved == [i \in 1..n |-> Event("resolve", SymbolTable[i][2])]
       IN  IF k # 0
           THEN /\ InitPanics(p, t, [kind |-> "panic",
                                     name |-> SymbolTable[k][2]])
                /\ building' = [building EXCEPT ![p] =
                                   @ \cup {SymbolTable[i] : i \in 1..n}]
                /\ log' = [log EXCEPT ![p] = @ \o resolved \o
                              <<Event("resolve_failed", SymbolTable[k][2])>>]
                /\ UNCHANGED <<IUP, view>>
           ELSE LET value == [bound |-> building[p] \cup
                                 {SymbolTable[i] : i \in 1..n},
                              valid |-> TRUE]
                IN  /\ building' = [building EXCEPT ![p] = value.bound]
                    /\ IUP' = [IUP EXCEPT ![p] = value]
                    /\ view' = [view EXCEPT ![p][t] = value]
                    /\ once' = [once EXCEPT ![p]["IUP"] = "done"]
                    /\ owner' = [owner EXCEPT ![p]["IUP"] = 0]
                    /\ pc' = [pc EXCEPT ![p][t] = "idle"]
                    /\ newResult' = [newResult EXCEPT ![p] =
                                        [kind |-> "Ok", name |-> ""]]
                    /\ log' = [log EXCEPT ![p] = @ \o resolved]
                    /\ UNCHANGED <<pstate, status>>
    /\ UNCHANGED extVars
    /\ UNCHANGED <<env, argv, slp, missing, openResult>>

(***************************************************************************)
(* The end of a process in its run phase.                                  *)
(***************************************************************************)

\* The main thread returns from main or calls exit.
ProcExit(p) ==
    /\ pstate[p] = "run"
    /\ pc[p][MainThread] = "idle"
    /\ \E c \in AppExitCodes :
         /\ pstate' = [pstate EXCEPT ![p] = "exited"]
         /\ status' = [status EXCEPT ![p] = Exited(c)]
    /\ UNCHANGED <<env, argv, slp>>
    /\ UNCHANGED runVars

\* The process is ended by a signal it raises (abort, a fault in native code).
ProcSignal(p) ==
    /\ pstate[p] = "run"
    /\ \E sig \in Signals :
         /\ pstate' = [pstate EXCEPT ![p] = "signaled"]
         /\ status' = [status EXCEPT ![p] = Signaled(sig)]
    /\ UNCHANGED <<env, argv, slp>>
    /\ UNCHANGED runVars

(***************************************************************************)
(* The IM singleton (line 23) and Im::new (lines 107-112), which derefs    *)
(* IM_LIB (lines 17-20).                                                   *)
(***************************************************************************)
AccessIM(p, t) ==
    /\ pstate[p] = "run"
    /\ pc[p][t] = "idle"
    /\ IF OnceMayRun(once[p]["IM"])
       THEN \* this thread runs the initialiser, Im::new()
            /\ once' = [once EXCEPT ![p]["IM"] = "running"]
            /\ owner' = [owner EXCEPT ![p]["IM"] = t]
            /\ pc' = [pc EXCEPT ![p][t] = "im_lib"]
            /\ UNCHANGED <<pstate, status, imView>>
       ELSE IF OnceReady(once[p]["IM"])
       THEN /\ imView' = [imView EXCEPT ![p][t] = TRUE]
            /\ UNCHANGED <<pstate, status, once, owner, pc>>
       ELSE IF once[p]["IM"] = "running"
       THEN /\ pc' = [pc EXCEPT ![p][t] = "im_blocked"]
            /\ UNCHANGED <<pstate, status, once, owner, imView>>
       ELSE \* poisoned: call_once panics
            /\ pc' = [pc EXCEPT ![p][t] = "dead"]
            /\ pstate' = PstateAfterPanic(p, t)
            /\ status' = StatusAfterPanic(p, t)
            /\ UNCHANGED <<once, owner, imView>>
    /\ UNCHANGED <<env, argv, slp, missing, building, IUP, view, openResult,
                   newResult, log>>
    /\ UNCHANGED <<imLog, imMissing, withEnvPrev, ldAtImLoad, ncalls, ret>>

\* A thread waiting on the IM cell resumes when the initialiser has ended.
ImUnblock(p, t) ==
    /\ pstate[p] = "run"
    /\ pc[p][t] = "im_blocked"
    /\ once[p]["IM"] # "running"
    /\ IF OnceReady(once[p]["IM"])
       THEN /\ imView' = [imView EXCEPT ![p][t] = TRUE]
            /\ pc' = [pc EXCEPT ![p][t] = "idle"]
            /\ UNCHANGED <<pstate, status>>
       ELSE /\ pc' = [pc EXCEPT ![p][t] = "dead"]
            /\ pstate' = PstateAfterPanic(p, t)
            /\ status' = StatusAfterPanic(p, t)
            /\ UNCHANGED imView
    /\ UNCHANGED <<env, argv, slp, once, owner, missing, building, IUP, view,
                   openResult, newResult, log>>
    /\ UNCHANGED <<imLog, imMissing, withEnvPrev, ldAtImLoad, ncalls, ret>>

\* The initialiser of IM panics: the cell is poisoned.
ImInitPanics(p, t) ==
    /\ owner' = [owner EXCEPT ![p]["IM"] = 0]
    /\ pc' = [pc EXCEPT ![p][t] = "dead"]
    /\ pstate' = PstateAfterPanic(p, t)
    /\ status' = StatusAfterPanic(p, t)

\* Line 110, IM_LIB: the deref of the library cell, whose initialiser
\* (lines 17-20) evaluates exe_path().to_str().unwrap() and enters with_env:
\* prev is saved and LD_LIBRARY_PATH is set to exe_path() (lines 51-52).
ImLibEnter(p, t) ==
    /\ pstate[p] = "run"
    /\ pc[p][t] = "im_lib"
    /\ IF OnceMayRun(once[p]["IM_LIB"])
       THEN \E pathOk \in BOOLEAN :
              IF pathOk
              THEN /\ once' = [once EXCEPT ![p]["IM_LIB"] = "running"]
                   /\ withEnvPrev' = [withEnvPrev EXCEPT ![p] =
                                         env_var_os(env[p], LDPATH)]
                   /\ env' = [env EXCEPT ![p] =
                                 WithEnvSet(@, LDPATH, exe_path)]
                   /\ pc' = [pc EXCEPT ![p][t] = "im_load"]
                   /\ UNCHANGED <<pstate, status, owner>>
              ELSE \* exe_path() or to_str().unwrap() panics (line 18)
                   /\ once' = [once EXCEPT ![p]["IM_LIB"] = "poisoned",
                                           ![p]["IM"] = "poisoned"]
                   /\ ImInitPanics(p, t)
                   /\ UNCHANGED <<env, withEnvPrev>>
       ELSE IF OnceReady(once[p]["IM_LIB"])
       THEN \* the library is already open
            /\ pc' = [pc EXCEPT ![p][t] = "im_resolve"]
            /\ UNCHANGED <<pstate, status, once, owner, env, withEnvPrev>>
       ELSE \* poisoned
            /\ once' = [once EXCEPT ![p]["IM"] = "poisoned"]
            /\ ImInitPanics(p, t)
            /\ UNCHANGED <<env, withEnvPrev>>
    /\ UNCHANGED <<argv, slp, missing, building, IUP, view, openResult,
                   newResult, log>>
    /\ UNCHANGED <<imLog, imMissing, ldAtImLoad, imView, ncalls, ret>>

\* Lines 19 and 53-56: Library::new(im_dll()).expect(..) inside with_env;
\* the deferred guard restores the variable when func returns or unwinds.
ImLibLoad(p, t) ==
    /\ pstate[p] = "run"
    /\ pc[p][t] = "im_load"
    /\ ldAtImLoad' = [ldAtImLoad EXCEPT ![p] = env[p][LDPATH]]
    /\ env' = [env EXCEPT ![p] = WithEnvRestore(@, LDPATH, withEnvPrev[p])]
    /\ withEnvPrev' = [withEnvPrev EXCEPT ![p] = NoPrev]
    /\ \E found \in BOOLEAN, m \in ImMissingSets :
         IF found
         THEN /\ once' = [once EXCEPT ![p]["IM_LIB"] = "done"]
              /\ imMissing' = [imMissing EXCEPT ![p] = m]
              /\ imLog' = [imLog EXCEPT ![p] = Append(@, Event("load", im_dll))]
              /\ pc' = [pc EXCEPT ![p][t] = "im_resolve"]
              /\ UNCHANGED <<pstate, status, owner>>
         ELSE /\ m = {}
              /\ once' = [once EXCEPT ![p]["IM_LIB"] = "poisoned",
                                      ![p]["IM"] = "poisoned"]
              /\ ImInitPanics(p, t)
              /\ imLog' = [imLog EXCEPT ![p] =
                              Append(@, Event("load_failed", im_dll))]
              /\ UNCHANGED imMissing
    /\ UNCHANGED <<argv, slp, missing, building, IUP, view, openResult,
                   newResult, log>>
    /\ UNCHANGED <<imView, ncalls, ret>>

\* Lines 108-112: IM_LIB.get(b"IupLoadImage\0").unwrap(), then the value
\* is returned and published by the cell.
ImNew(p, t) ==
    /\ pstate[p] = "run"
    /\ pc[p][t] = "im_resolve"
    /\ IF UnwrapPanics(LibGet(imMissing[p], "IupLoadImage"))
       THEN /\ once' = [once EXCEPT ![p]["IM"] = "poisoned"]
            /\ ImInitPanics(p, t)
            /\ imLog' = [imLog EXCEPT ![p] =
                            Append(@, Event("resolve_failed", "IupLoadImage"))]
            /\ UNCHANGED imView
       ELSE /\ once' = [once EXCEPT ![p]["IM"] = "done"]
            /\ owner' = [owner EXCEPT ![p]["IM"] = 0]
            /\ pc' = [pc EXCEPT ![p][t] = "idle"]
            /\ imView' = [imView EXCEPT ![p][t] = TRUE]
            /\ imLog' = [imLog EXCEPT ![p] =
                            Append(@, Event("resolve", "IupLoadImage"))]
            /\ UNCHANGED <<pstate, status>>
    /\ UNCHANGED <<env, argv, slp, missing, building, IUP, view, openResult,
                   newResult, log>>
    /\ UNCHANGED <<imMissing, withEnvPrev, ldAtImLoad, ncalls, ret>>

\* Im::load_image (lines 114-116): c_from_str(name), then the native call.
LoadImage(p, t) ==
    /\ pstate[p] = "run"
    /\ pc[p][t] = "idle"
    /\ imView[p][t]
    /\ ncalls[p] < MaxCalls
    /\ ncalls' = [ncalls EXCEPT ![p] = @ + 1]
    /\ \E args \in TextArgs(Cardinality({"name"})) :
         IF ArgsPanic(args)
         THEN /\ pc' = [pc EXCEPT ![p][t] = "dead"]
              /\ pstate' = PstateAfterPanic(p, t)
              /\ status' = StatusAfterPanic(p, t)
              /\ ret' = [ret EXCEPT ![p] = [method |-> "load_image",
                            args |-> args, native |-> <<>>,
                            result |-> <<>>, outcome |-> "panic"]]
              /\ UNCHANGED imLog
         ELSE /\ imLog' = [imLog EXCEPT ![p] =
                              Append(@, Event("call", "IupLoadImage"))]
              /\ ret' = [ret EXCEPT ![p] = [method |-> "load_image",
                            args |-> args, native |-> <<>>,
                            result |-> <<>>, outcome |-> "returned"]]
              /\ UNCHANGED <<pstate, status, pc>>
    /\ UNCHANGED <<env, argv, slp, once, owner, missing, building, IUP, view,
                   openResult, newResult, log>>
    /\ UNCHANGED <<imMissing, withEnvPrev, ldAtImLoad, imView>>

(***************************************************************************)
(* Method calls on the Iup value a thread holds (lines 200-326).  The      *)
(* arguments are converted before the native function is entered, so a     *)
(* panic of c_from_str happens with no native call made.                   *)
(***************************************************************************)
CanCall(p, t) ==
    /\ pstate[p] = "run"
    /\ pc[p][t] = "idle"
    /\ view[p][t].valid
    /\ ncalls[p] < MaxCalls

Returned(name, args, native, result) ==
    [method |-> name, args |-> args, native |-> native, result |-> result,
     outcome |-> "returned"]

\* c_from_str panics in thread t while it converts the arguments.
CallPanics(p, t, name, args) ==
    /\ pc' = [pc EXCEPT ![p][t] = "dead"]
    /\ pstate' = PstateAfterPanic(p, t)
    /\ status' = StatusAfterPanic(p, t)
    /\ ret' = [ret EXCEPT ![p] = [method |-> name, args |-> args,
                  native |-> <<>>, result |-> <<>>, outcome |-> "panic"]]
    /\ UNCHANGED log

\* The native function bound to field is entered and returns.
CallNative(p, t, field) ==
    log' = [log EXCEPT ![p] =
               Append(@, Event("call", ExportOf(view[p][t], field)))]

\* close (lines 209-211).
Close(p, t) ==
    /\ CanCall(p, t)
    /\ ncalls' = [ncalls EXCEPT ![p] = @ + 1]
    /\ CallNative(p, t, "_close")
    /\ ret' = [ret EXCEPT ![p] = Returned("close", <<>>, <<>>, <<>>)]
    /\ UNCHANGED <<bootVars, once, owner, missing, pc, building, IUP, view,
                   openResult, newResult>>
    /\ UNCHANGED <<imLog, imMissing, withEnvPrev, ldAtImLoad, imView>>

\* show and show_xy (lines 300-306).
Show(p, t) ==
    /\ CanCall(p, t)
    /\ ncalls' = [ncalls EXCEPT ![p] = @ + 1]
    /\ \E m \in ShowMethods, r \in NativeInts :
         /\ CallNative(p, t, m.field)
         /\ ret' = [ret EXCEPT ![p] =
                       Returned(m.name, <<>>, <<r>>, <<SentinelToBool(r)>>)]
    /\ UNCHANGED <<bootVars, once, owner, missing, pc, building, IUP, view,
                   openResult, newResult>>
    /\ UNCHANGED <<imLog, imMissing, withEnvPrev, ldAtImLoad, imView>>

\* get_attribute, get_global and version (lines 217-223, 230-235, 316-321):
\* the native result goes through c_to_string.
GetText(p, t) ==
    /\ CanCall(p, t)
    /\ ncalls' = [ncalls EXCEPT ![p] = @ + 1]
    /\ \E m \in GetTextMethods, np \in NativeStrings :
       \E args \in TextArgs(m.texts), o \in c_to_string(np) :
         IF ArgsPanic(args)
         THEN CallPanics(p, t, m.name, args)
         ELSE /\ CallNative(p, t, m.field)
              /\ IF o.kind = "crash"
                 THEN /\ pstate' = [pstate EXCEPT ![p] = "signaled"]
                      /\ status' = [status EXCEPT ![p] = Signaled(11)]
                      /\ ret' = [ret EXCEPT ![p] =
                                    [method |-> m.name, args |-> args,
                                     native |-> <<np>>, result |-> <<>>,
                                     outcome |-> "crash"]]
                      /\ UNCHANGED pc
                 ELSE /\ ret' = [ret EXCEPT ![p] =
                                    Returned(m.name, args, <<np>>,
                                             IF o.kind = "Ok" THEN <<o.text>>
                                             ELSE m.onErr)]
                      /\ UNCHANGED <<pstate, status, pc>>
    /\ UNCHANGED <<env, argv, slp, once, owner, missing, building, IUP, view,
                   openResult, newResult>>
    /\ UNCHANGED <<imLog, imMissing, withEnvPrev, ldAtImLoad, imView>>

\* The methods that convert texts and pass the native result through.
TextCall(p, t) ==
    /\ CanCall(p, t)
    /\ ncalls' = [ncalls EXCEPT ![p] = @ + 1]
    /\ \E m \in TextMethods :
       \E args \in TextArgs(m.texts) :
         IF ArgsPanic(args)
         THEN CallPanics(p, t, m.name, args)
         ELSE /\ CallNative(p, t, m.field)
              /\ ret' = [ret EXCEPT ![p] = Returned(m.name, args, <<>>, <<>>)]
              /\ UNCHANGED <<pstate, status, pc>>
    /\ UNCHANGED <<env, argv, slp, once, owner, missing, building, IUP, view,
                   openResult, newResult>>
    /\ UNCHANGED <<imLog, imMissing, withEnvPrev, ldAtImLoad, imView>>

\* The methods without text arguments.
PlainCall(p, t) ==
    /\ CanCall(p, t)
    /\ ncalls' = [ncalls EXCEPT ![p] = @ + 1]
    /\ \E m \in PlainMethods :
         /\ CallNative(p, t, m.field)
         /\ ret' = [ret EXCEPT ![p] = Returned(m.name, <<>>, <<>>, <<>>)]
    /\ UNCHANGED <<bootVars, once, owner, missing, pc, building, IUP, view,
                   openResult, newResult>>
    /\ UNCHANGED <<imLog, imMissing, withEnvPrev, ldAtImLoad, imView>>

(***************************************************************************)
(* The conversions of prelude.rs applied one after the other by the main   *)
(* thread: c_from_str to a text, then c_to_string to the pointer it gave.  *)
(***************************************************************************)
ToNative(p) ==
    /\ pstate[p] = "run"
    /\ pc[p][MainThread] = "idle"
    /\ ret[p] = NoRet
    /\ \E s \in StrTexts :
         LET r == c_from_str(s)
         IN  IF r.panic
             THEN /\ pc' = [pc EXCEPT ![p][MainThread] = "dead"]
                  /\ pstate' = PstateAfterPanic(p, MainThread)
                  /\ status' = StatusAfterPanic(p, MainThread)
                  /\ ret' = [ret EXCEPT ![p] = [method |-> "c_from_str",
                                args |-> <<s>>, native |-> <<>>,
                                result |-> <<>>, outcome |-> "panic"]]
             ELSE /\ ret' = [ret EXCEPT ![p] =
                                Returned("c_from_str", <<s>>, <<r.ptr>>, <<>>)]
                  /\ UNCHANGED <<pstate, status, pc>>
    /\ UNCHANGED <<env, argv, slp, once, owner, missing, building, IUP, view,
                   openResult, newResult, log>>
    /\ UNCHANGED <<imLog, imMissing, withEnvPrev, ldAtImLoad, imView, ncalls>>

FromNative(p) ==
    /\ pstate[p] = "run"
    /\ pc[p][MainThread] = "idle"
    /\ ret[p].method = "c_from_str"
    /\ ret[p].outcome = "returned"
    /\ \E o \in c_to_string(ret[p].native[1]) :
         IF o.kind = "crash"
         THEN /\ pstate' = [pstate EXCEPT ![p] = "signaled"]
              /\ status' = [status EXCEPT ![p] = Signaled(11)]
              /\ ret' = [ret EXCEPT ![p].method = "c_to_string",
                                    ![p].outcome = "crash"]
         ELSE /\ ret' = [ret EXCEPT ![p].method = "c_to_string",
                                    ![p].result = IF o.kind = "Ok"
                                                  THEN <<"Ok", o.text>>
                                                  ELSE <<"Err">>]
              /\ UNCHANGED <<pstate, status>>
    /\ UNCHANGED <<env, argv, slp, once, owner, missing, pc, building, IUP,
                   view, openResult, newResult, log>>
    /\ UNCHANGED <<imLog, imMissing, withEnvPrev, ldAtImLoad, imView, ncalls>>

Next ==
    \E p \in Procs :
       \/ SetLibraryPathNoop(p)
       \/ SetLibraryPathSpawn(p)
       \/ SetLibraryPathFail(p)
       \/ SetLibraryPathWait(p)
       \/ SkipSetLibraryPath(p)
       \/ ProcExit(p)
       \/ ProcSignal(p)
       \/ \E t \in Threads :
            \/ AccessIUP(p, t)
            \/ Unblock(p, t)
            \/ IupNewLoad(p, t)
            \/ IupNewResolveOpen(p, t)
            \/ IupNewCallOpen(p, t)
            \/ IupNewSetGlobal(p, t)
            \/ IupNewTable(p, t)

Spec == Init /\ [][Next]_vars

(***************************************************************************)
(* The bootstrap step together with the construction of both singletons:   *)
(* a process that keeps running until a panic of its main thread ends it,  *)
(* started with the guard variable unset or set to "1".                    *)
(***************************************************************************)
InitIm ==
    /\ Init
    /\ argv[1] = <<"rsiup">>
    /\ env[1][GUARD] \in {NoVal, "1"}

NextIm ==
    \E p \in Procs :
       \/ SetLibraryPathNoop(p)
       \/ SetLibraryPathSpawn(p)
       \/ SetLibraryPathFail(p)
       \/ SetLibraryPathWait(p)
       \/ SkipSetLibraryPath(p)
       \/ \E t \in Threads :
            \/ AccessIUP(p, t)
            \/ Unblock(p, t)
            \/ IupNewLoad(p, t)
            \/ IupNewResolveOpen(p, t)
            \/ IupNewCallOpen(p, t)
            \/ IupNewSetGlobal(p, t)
            \/ IupNewTable(p, t)
            \/ AccessIM(p, t)
            \/ ImUnblock(p, t)
            \/ ImLibEnter(p, t)
            \/ ImLibLoad(p, t)
            \/ ImNew(p, t)

SpecIm == InitIm /\ [][NextIm]_vars

(***************************************************************************)
(* A single-threaded program that uses the core library: the main thread   *)
(* calls set_library_path, obtains IUP and calls its methods.  It is        *)
(* started with the guard variable set to "1", as the relaunched child is, *)
(* so the bootstrap step returns.                                          *)
(***************************************************************************)
InitFacade ==
    /\ Init
    /\ argv[1] = <<"rsiup">>
    /\ env[1][GUARD] = "1"
    /\ env[1][LDPATH] = NoVal

NextFacade ==
    \E p \in Procs :
       \/ SetLibraryPathNoop(p)
       \/ AccessIUP(p, MainThread)
       \/ IupNewLoad(p, MainThread)
       \/ IupNewResolveOpen(p, MainThread)
       \/ IupNewCallOpen(p, MainThread)
       \/ IupNewSetGlobal(p, MainThread)
       \/ IupNewTable(p, MainThread)
       \/ Close(p, MainThread)
       \/ Show(p, MainThread)
       \/ GetText(p, MainThread)
       \/ TextCall(p, MainThread)
       \/ PlainCall(p, MainThread)

SpecFacade == InitFacade /\ [][NextFacade]_vars

(***************************************************************************)
(* A single-threaded program that uses the image library: the main thread  *)
(* makes the bootstrap step, obtains IUP and IM in either order and loads  *)
(* images.                                                                 *)
(***************************************************************************)
NextImage ==
    \E p \in Procs :
       \/ SetLibraryPathNoop(p)
       \/ SetLibraryPathSpawn(p)
       \/ SetLibraryPathFail(p)
       \/ SetLibraryPathWait(p)
       \/ SkipSetLibraryPath(p)
       \/ AccessIUP(p, MainThread)
       \/ IupNewLoad(p, MainThread)
       \/ IupNewResolveOpen(p, MainThread)
       \/ IupNewCallOpen(p, MainThread)
       \/ IupNewSetGlobal(p, MainThread)
       \/ IupNewTable(p, MainThread)
       \/ AccessIM(p, MainThread)
       \/ ImLibEnter(p, MainThread)
       \/ ImLibLoad(p, MainThread)
       \/ ImNew(p, MainThread)
       \/ LoadImage(p, MainThread)

SpecImage == InitIm /\ [][NextImage]_vars

(***************************************************************************)
(* A program that only converts a text to its native form and back.        *)
(***************************************************************************)
NextText ==
    \E p \in Procs :
       \/ SkipSetLibraryPath(p)
       \/ ToNative(p)
       \/ FromNative(p)

SpecText == InitFacade /\ [][NextText]_vars


(***************************************************************************)
(* Properties.                                                             *)
(***************************************************************************)
Born(p) == pstate[p] # "unborn"
Descendants == {p \in Procs : p > 1 /\ Born(p)}
Spawned(p) == slp[p].spawned = 1
OpenCalls(p) == {i \in DOMAIN log[p] : log[p][i] = OpenCall}
Observed(p) == {view[p][t] : t \in Threads} \cup {IUP[p]}

\* C1: the relaunch happens at most once per process chain: a process
\* that calls set_library_path without the guard and gets as far as
\* waiting spawns exactly one child, the child starts with the guard set
\* to "1", the child spawns nothing, there is never more than one
\* descendant, and the relaunching process opens no native library.
C1_RelaunchAtMostOnce ==
    /\ Cardinality(Descendants) <= 1
    /\ \A p \in Procs :
         /\ (slp[p].relaunch /\ pstate[p] \in {"waiting", "exited"})
               => (Spawned(p) /\ p + 1 \in Descendants)
         /\ Spawned(p) => env[p + 1][GUARD] = "1"
         /\ p \in Descendants => (env[p][GUARD] = "1" /\ ~Spawned(p))
         /\ slp[p].relaunch => log[p] = <<>>

\* C1 witness: the child has made its own call of set_library_path and has
\* gone on to open the core library.
C1_Witness ==
    \E p \in Procs :
       /\ Spawned(p)
       /\ slp[p + 1].called
       /\ log[p + 1] # <<>>

\* C2: the arguments the child sees after its program name are the
\* arguments the parent sees after its own program name.
C2_ChildArgsIdentical ==
    \A p \in Procs : Spawned(p) => Tail(argv[p + 1]) = Tail(argv[p])

\* C3: when the relaunch was taken and the child exited with code c, the
\* parent exits with code c; the parent ends only after the child has.
C3_ExitCodePropagated ==
    \A p \in Procs :
       (Spawned(p) /\ Terminated(p)) =>
          /\ Terminated(p + 1)
          /\ status[p + 1].kind = "code" =>
                (pstate[p] = "exited" /\ status[p] = status[p + 1])

\* C3 witness: a parent that has exited with its child's non-zero code.
C3_Witness ==
    \E p \in Procs :
       /\ Spawned(p)
       /\ pstate[p] = "exited"
       /\ status[p + 1] = Exited(255)
       /\ status[p].n = 255

\* How a call of set_library_path that was a no-op looks.
WasNoop(p) ==
    /\ slp[p].returned
    /\ ~slp[p].relaunch
    /\ slp[p].spawned = 0
    /\ p + 1 \in Procs => ~Born(p + 1)
    /\ slp[p].envAfter = slp[p].envBefore

\* C4 as stated: with the guard variable present, whatever its value,
\* set_library_path is a no-op.
C4_NoopWhenGuardPresent ==
    \A p \in Procs :
       (slp[p].called /\ slp[p].envBefore[GUARD] # NoVal) => WasNoop(p)

\* C4 amended: with the guard variable set to "1", set_library_path is a
\* no-op: no child, no exit, no environment change, and it returns.
C4_NoopWhenGuardIsOne ==
    \A p \in Procs :
       (slp[p].called /\ slp[p].envBefore[GUARD] = "1") => WasNoop(p)

\* C4 witness: a process started with the guard "1" whose call has returned
\* and which runs on.
C4_Witness ==
    \E p \in Procs :
       /\ slp[p].called
       /\ slp[p].envBefore[GUARD] = "1"
       /\ pstate[p] = "run"

\* C5: the child's search path is the native-library directory, followed
\* by ":" and the parent's value when the parent has one.
C5_SearchPathPrepended ==
    \A p \in Procs :
       Spawned(p) =>
          env[p + 1][LDPATH] =
             IF slp[p].envBefore[LDPATH] = NoVal
             THEN "/app/iup/linux"
             ELSE "/app/iup/linux" \o ":" \o slp[p].envBefore[LDPATH]

\* C5 witness: a child whose parent had a search path.
C5_Witness ==
    \E p \in Procs :
       /\ Spawned(p)
       /\ env[p][LDPATH] = "/usr/lib"
       /\ env[p + 1][LDPATH] = "/app/iup/linux:/usr/lib"

\* C6: where the guard is absent, set_library_path never returns: the
\* process does not get to its run phase, loads no library, resolves no
\* symbol and makes no native call, and it ends only after the child has.
C6_NeverReturnsWithoutGuard ==
    \A p \in Procs :
       (slp[p].called /\ slp[p].envBefore[GUARD] = NoVal) =>
          /\ ~slp[p].returned
          /\ pstate[p] # "run"
          /\ log[p] = <<>>
          /\ once[p] = [c \in Cells |-> "new"]
          /\ \A t \in Threads : pc[p][t] = "idle" /\ ~view[p][t].valid
          /\ Terminated(p) => (Spawned(p) => Terminated(p + 1))

\* C6 witness: a guardless process that has ended after its child ran the
\* native initialisation.
C6_Witness ==
    \E p \in Procs :
       /\ slp[p].called
       /\ slp[p].envBefore[GUARD] = NoVal
       /\ Terminated(p)
       /\ Spawned(p)
       /\ OpenCalls(p + 1) # {}

\* C7: IupOpen is called at most once per process, whatever the
\* interleaving of accesses and also after a failed construction.
C7_OpenAtMostOnce ==
    \A p \in Procs : Cardinality(OpenCalls(p)) <= 1

\* C7 witness: construction failed after IupOpen was called, and a second
\* thread that accessed IUP afterwards has panicked too.
C7_Witness ==
    \E p \in Procs :
       /\ OpenCalls(p) # {}
       /\ once[p]["IUP"] = "poisoned"
       /\ \E t, u \in Threads : t # u /\ pc[p][t] = "dead" /\ pc[p][u] = "dead"

\* C8: an Iup value is observable only if IupOpen returned NOERROR and
\* every field of the struct is bound to an export the library has.
C8_HandleOnlyWhenComplete ==
    \A p \in Procs : \A h \in Observed(p) :
       h.valid =>
          /\ openResult[p] = <<NOERROR>>
          /\ {b[1] : b \in h.bound} = IupFields
          /\ \A b \in h.bound : b[2] \notin missing[p]

\* C8 witness: every thread of a process observes the handle.
C8_Witness ==
    \E p \in Procs : \A t \in Threads : view[p][t].valid

\* C9: with exactly one required export missing, construction ends with an
\* error value returned by Iup::new that names the missing symbol.
C9_MissingSymbolIsError ==
    \A p \in Procs :
       (/\ Cardinality(missing[p]) = 1
        /\ missing[p] \subseteq RequiredExports
        /\ openResult[p] \in {NoResult, <<NOERROR>>}
        /\ newResult[p].kind # "none")
          => (newResult[p].kind = "Err" /\ newResult[p].name \in missing[p])

\* C10: when IupOpen returns anything but NOERROR, Iup::new returns an
\* error, no handle exists, and the IupOpen call is the last native event.
C10_OpenFailureStops ==
    \A p \in Procs :
       (openResult[p] # NoResult /\ openResult[p] # <<NOERROR>>) =>
          /\ newResult[p].kind = "Err"
          /\ \A h \in Observed(p) : ~h.valid
          /\ building[p] = {}
          /\ log[p][Len(log[p])] = OpenCall
          /\ \A i \in DOMAIN log[p] :
                log[p][i][2] # "IupSetGlobal"

\* C10 witness: IupOpen returned OPENED and construction ended in an error.
C10_Witness ==
    \E p \in Procs :
       /\ openResult[p] = <<OPENED>>
       /\ newResult[p].kind = "Err"


LastEvent(p) == log[p][Len(log[p])]
AtOpenCall(p) == log[p] # <<>> /\ LastEvent(p) = OpenCall

\* C12 (as stated): at the moment IupOpen is called by first access to IUP,
\* the process runs with the guard set and both native libraries, the core
\* library and the image library, have been loaded.
C12_BootstrapInsideCreation ==
    \A p \in Procs :
       AtOpenCall(p) =>
          /\ env[p][GUARD] = "1"
          /\ once[p]["IUP_LIB"] = "done"
          /\ once[p]["IM_LIB"] = "done"

\* C12 (amended): at the moment IupOpen is called the core library has been
\* loaded, by a load event earlier in the same construction; the process
\* runs with the guard set to "1" when set_library_path was called before;
\* and the image library is opened only by an access to IM.
C12_OpenAfterCoreLibraryOnly ==
    \A p \in Procs :
       /\ AtOpenCall(p) =>
             /\ once[p]["IUP_LIB"] = "done"
             /\ \E i \in DOMAIN log[p] :
                   /\ log[p][i] = Event("load", iup_dll)
                   /\ i < Len(log[p])
             /\ slp[p].called => env[p][GUARD] = "1"
       /\ once[p]["IM_LIB"] # "new" => once[p]["IM"] # "new"

\* C12 witness: IupOpen has just been called in a process that called
\* set_library_path, and the image library has not been opened.
C12_Witness ==
    \E p \in Procs :
       /\ AtOpenCall(p)
       /\ slp[p].called
       /\ once[p]["IM_LIB"] = "new"

\* The attempts, and the successful attempts, to open library file dll that
\* an event sequence records.
LoadAttempts(l, dll) ==
    {i \in DOMAIN l : l[i] \in {Event("load", dll), Event("load_failed", dll)}}
Loads(l, dll) == {i \in DOMAIN l : l[i] = Event("load", dll)}
Resolved(l) == {i \in DOMAIN l : l[i][1] = "resolve"}

\* C13: each native library file is opened at most once per process under
\* every interleaving of accesses to the four cells; a library that has
\* been opened stays open, so every resolved symbol and every handle a
\* thread holds belongs to a library that is loaded.
C13_LibrariesOpenedOnce ==
    \A p \in Procs :
       /\ Cardinality(LoadAttempts(log[p], iup_dll)) <= 1
       /\ Cardinality(LoadAttempts(imLog[p], im_dll)) <= 1
       /\ Loads(log[p], iup_dll) # {} <=> once[p]["IUP_LIB"] = "done"
       /\ Loads(imLog[p], im_dll) # {} <=> once[p]["IM_LIB"] = "done"
       /\ Resolved(log[p]) # {} => once[p]["IUP_LIB"] = "done"
       /\ Resolved(imLog[p]) # {} => once[p]["IM_LIB"] = "done"
       /\ \A h \in Observed(p) : h.valid => once[p]["IUP_LIB"] = "done"
       /\ \A t \in Threads : imView[p][t] => once[p]["IM_LIB"] = "done"

\* C13 witness: every thread of a process has obtained both singletons and
\* each library file was opened exactly once.
C13_Witness ==
    \E p \in Procs :
       /\ \A t \in Threads : view[p][t].valid /\ imView[p][t]
       /\ Cardinality(Loads(log[p], iup_dll)) = 1
       /\ Cardinality(Loads(imLog[p], im_dll)) = 1

\* C14: at the moment the image library is opened LD_LIBRARY_PATH is the
\* native-library directory exe_path(), in a process that called
\* set_library_path and in one that did not, whatever the variable held
\* before; and every attempt to open the library is made at such a moment.
C14_SearchPathSetAtImageLoad ==
    \A p \in Procs :
       /\ ldAtImLoad[p] # NotOpened => ldAtImLoad[p] = exe_path
       /\ LoadAttempts(imLog[p], im_dll) # {} <=> ldAtImLoad[p] # NotOpened
       /\ pstate[p] = "run" /\ (\E t \in Threads : pc[p][t] = "im_load")
             => env[p][LDPATH] = exe_path

\* C14 witness: the image library was opened in a process that never
\* called set_library_path and whose variable held another directory.
C14_Witness ==
    \E p \in Procs :
       /\ ~slp[p].called
       /\ env[p][LDPATH] = "/usr/lib"
       /\ Loads(imLog[p], im_dll) # {}
       /\ ldAtImLoad[p] = exe_path

\* The native calls a process has made into the core library, in order,
\* and the exports it has resolved.
Calls(p) == SelectSeq(log[p], LAMBDA e : e[1] = "call")
ResolvedExports(p) == {log[p][i][2] : i \in Resolved(log[p])}
Constructing(p) == once[p]["IUP"] = "running"

\* C11: in the construction of the Iup value the first native call is
\* IupOpen(null, null); the next native call is IupSetGlobal("UTF8MODE",
\* "YES"), made right after IupOpen returned NOERROR with only the
\* resolution of IupSetGlobal in between; while construction runs no other
\* native call is made; and when the value exists every export of the
\* table has been resolved, each once, before any method call, which
\* resolves nothing more.
C11_ConstructionCallOrder ==
    \A p \in Procs :
       LET calls == Calls(p)
           l == log[p]
           open == <<"call", "IupOpen", <<NullPtr, NullPtr>> >>
           setglobal == <<"call", "IupSetGlobal", <<"UTF8MODE", "YES">> >>
       IN  /\ calls # <<>> => calls[1] = open
           /\ Len(calls) >= 2 =>
                 /\ calls[2] = setglobal
                 /\ openResult[p] = <<NOERROR>>
                 /\ \E i \in DOMAIN l :
                       /\ l[i] = open
                       /\ l[i + 1] = Event("resolve", "IupSetGlobal")
                       /\ l[i + 2] = setglobal
           /\ Constructing(p) => Len(calls) <= 2
           /\ Len(calls) > 2 => IUP[p].valid
           /\ IUP[p].valid =>
                 /\ ResolvedExports(p) = RequiredExports
                 /\ Cardinality(Resolved(l)) = Len(SymbolTable) + 2
                 /\ \A i \in Resolved(l), j \in DOMAIN l :
                       (l[j][1] = "call" /\ l[j] \notin {open, setglobal})
                          => i < j

\* C11 witness: construction has completed and a method has been called.
C11_Witness ==
    \E p \in Procs :
       /\ IUP[p].valid
       /\ Len(Calls(p)) > 2

CloseCalls(p) == {i \in DOMAIN log[p] : log[p][i] = Event("call", "IupClose")}

\* C15: IupClose is invoked at most once per process, whatever sequence of
\* method calls is made: a second close() does not reach the library.
C15_CloseAtMostOnce ==
    \A p \in Procs : Cardinality(CloseCalls(p)) <= 1

\* C16: after close() has called IupClose, no method makes a native call:
\* no call event follows the IupClose call.
C16_NoCallAfterClose ==
    \A p \in Procs :
       \A i \in CloseCalls(p), j \in DOMAIN log[p] :
          j > i => log[p][j][1] # "call"

\* C17: the IM singleton is not constructed, and load_image makes no call
\* into the image library, in a state where IupOpen has not returned
\* NOERROR.
C17_ImageAfterOpenOnly ==
    \A p \in Procs :
       openResult[p] # <<NOERROR>> =>
          /\ once[p]["IM"] # "done"
          /\ \A i \in DOMAIN imLog[p] :
                imLog[p][i] # Event("call", "IupLoadImage")

\* C18: show and show_xy make their one native call and return true
\* exactly when it returned NOERROR, false for every other integer.
C18_SentinelToBool ==
    \A p \in Procs :
       ret[p].method \in {"show", "show_xy"} =>
          /\ ret[p].outcome = "returned"
          /\ Len(ret[p].native) = 1
          /\ ret[p].result = <<ret[p].native[1] = NOERROR>>
          /\ LastEvent(p) = Event("call", IF ret[p].method = "show"
                                          THEN "IupShow" ELSE "IupShowXY")

\* C18 witness: show_xy returned false for a native result that is
\* neither NOERROR nor ERROR.
C18_Witness ==
    \E p \in Procs :
       /\ ret[p].method = "show_xy"
       /\ ret[p].native = <<OPENED>>
       /\ ret[p].result = <<FALSE>>

\* C19: once the native call of get_attribute has returned, the method
\* returns to its caller: Some(text) when the native result is a valid
\* string, None for every other result, the null pointer included.
C19_GetAttributeNoneOnUndecodable ==
    \A p \in Procs :
       (ret[p].method = "get_attribute" /\ ret[p].native # <<>>) =>
          LET np == ret[p].native[1]
              valid == ~np.null /\ IsUtf8(UntilNul(np.mem))
          IN  /\ ret[p].outcome = "returned"
              /\ ret[p].result = IF valid THEN <<UntilNul(np.mem)>> ELSE <<>>

\* C20: a method called on a valid handle with a text argument that holds
\* a 0 byte returns to its caller, and the process goes on.
C20_NulTextNeverAborts ==
    \A p \in Procs :
       (ret[p].method # "" /\ \E i \in DOMAIN ret[p].args : HasNul(ret[p].args[i])) =>
          /\ ret[p].outcome = "returned"
          /\ pstate[p] # "panicked"

\* C21: for every text s without a 0 byte, c_to_string(c_from_str(s))
\* succeeds and yields exactly s.
C21_RoundTrip ==
    \A p \in Procs :
       /\ (ret[p].method = "c_from_str" /\ ~HasNul(ret[p].args[1])) =>
             /\ ret[p].outcome = "returned"
             /\ ~ret[p].native[1].null
       /\ ret[p].method = "c_to_string" =>
             /\ ~HasNul(ret[p].args[1])
             /\ ret[p].outcome = "returned"
             /\ ret[p].result = <<"Ok", ret[p].args[1]>>

\* C21 witness: a text of several characters, one of them of more than one
\* byte, has come back unchanged.
C21_Witness ==
    \E p \in Procs :
       /\ ret[p].method = "c_to_string"
       /\ ret[p].args = << <<97, 195, 169>> >>
       /\ ret[p].result = <<"Ok", <<97, 195, 169>> >>

\* C22: every field of the Iup value is bound to an export whose header
\* signature equals the field's declared signature; get_dialog_child is
\* bound to, and calls, IupGetDialogChild; get_ih and set_ih are bound to
\* exports with the signatures their fields declare.
C22_BindingsMatchHeader ==
    \A p \in Procs :
       /\ IUP[p].valid =>
             /\ \A b \in IUP[p].bound : HeaderSig[b[2]] = DeclaredSig(b[1])
             /\ <<"_getdialogchild", "IupGetDialogChild">> \in IUP[p].bound
       /\ (ret[p].method = "get_dialog_child" /\ ret[p].outcome = "returned")
             => LastEvent(p) = Event("call", "IupGetDialogChild")

\* The valid strings among the native results, and the text of each.
ValidNative == {Ptr(<<97, 0>>), Ptr(<<195, 169, 0>>), Ptr(<<0>>)}
TextOf(np) == SubSeq(np.mem, 1, Len(np.mem) - 1)

\* C23: with a complete library whose IupOpen returns NOERROR the
\* construction of the Iup value succeeds; version() then returns exactly
\* the text of the string IupVersion returned, for every valid string, and
\* IupVersion is the one native call it makes.
C23_VersionExact ==
    \A p \in Procs :
       /\ (/\ openResult[p] = <<NOERROR>>
           /\ missing[p] \cap RequiredExports = {}
           /\ newResult[p].kind # "none")
             => (newResult[p].kind = "Ok" /\ IUP[p].valid)
       /\ Len(Calls(p)) <= ncalls[p] + 2
       /\ ret[p].method = "version" =>
             /\ LastEvent(p) = Event("call", "IupVersion")
             /\ ret[p].args = <<>>
             /\ ret[p].native[1] \in ValidNative =>
                   /\ ret[p].outcome = "returned"
                   /\ ret[p].result = <<TextOf(ret[p].native[1])>>

\* C23 witness: version() has returned a text with a two-byte character.
C23_Witness ==
    \E p \in Procs :
       /\ newResult[p].kind = "Ok"
       /\ ret[p].method = "version"
       /\ ret[p].native = <<Ptr(<<195, 169, 0>>)>>
       /\ ret[p].result = << <<195, 169>> >>

\* C24: when a signal ended the relaunched child, the parent does not
\* exit with a propagated code: set_library_path never returns, the
\* parent waits and then ends by a panic that reports the signal number.
C24_SignalIsFatal ==
    \A p \in Procs :
       (Spawned(p) /\ status[p + 1].kind = "signal") =>
          /\ pstate[p] \in {"waiting", "panicked"}
          /\ ~slp[p].returned
          /\ pstate[p] = "panicked" =>
                /\ status[p] = Exited(101)
                /\ slp[p].report = <<status[p + 1].n>>

\* C24 witness: a parent has panicked on a child ended by signal 11.
C24_Witness ==
    \E p \in Procs :
       /\ Spawned(p)
       /\ status[p + 1] = Signaled(11)
       /\ pstate[p] = "panicked"
       /\ slp[p].report = <<11>>

\* C25: with_env runs func with the key set to value: when the initialiser
\* of IM_LIB starts, LD_LIBRARY_PATH becomes the native-library directory
\* and the value it had is kept; nothing changes it while the library is
\* being opened; when the initialiser ends the variable is the value it
\* had before if it was set, and stays the native-library directory if it
\* was unset.  No other variable of the environment is touched.
C25_WithEnvRestores ==
    [][\A p \in Procs :
          LET before == once[p]["IM_LIB"]
              after == once'[p]["IM_LIB"]
              ld == env[p][LDPATH]
          IN  /\ (before = "new" /\ after = "running") =>
                    /\ env'[p][LDPATH] = "/app/iup/linux"
                    /\ withEnvPrev'[p].some = (ld # NoVal)
                    /\ ld # NoVal => withEnvPrev'[p].v = ld
              /\ (before = "running" /\ after = "running") =>
                    /\ env'[p] = env[p]
                    /\ withEnvPrev'[p] = withEnvPrev[p]
              /\ (before = "running" /\ after # "running") =>
                    /\ ld = "/app/iup/linux"
                    /\ env'[p][LDPATH] = IF withEnvPrev[p].some
                                         THEN withEnvPrev[p].v
                                         ELSE "/app/iup/linux"
              /\ pstate[p] = "run" => env'[p][GUARD] = env[p][GUARD]
      ]_vars

\* C25 witness: the image library has been loaded in a process that called
\* set_library_path with LD_LIBRARY_PATH unset, and the variable is now
\* the native-library directory.
C25_Witness ==
    \E p \in Procs :
       /\ slp[p].called
       /\ slp[p].returned
       /\ slp[p].envBefore[LDPATH] = NoVal
       /\ Loads(imLog[p], im_dll) # {}
       /\ once[p]["IM_LIB"] = "done"
       /\ env[p][LDPATH] = "/app/iup/linux"
=============================================================================
